---- MODULE Spec2Model ----
(***************************************************************************)
(* Model of todo-cli (src/todo-cli/src/main.rs): the task record Zadanie,  *)
(* the store ToDolist, whole-file JSON persistence and the command loop of *)
(* main.                                                                   *)
(*                                                                         *)
(* Abstractions: a text is one of two strings; a due-date string is the    *)
(* triple <<year, month, day>> it spells; Local::now() reads one of the    *)
(* values of Times (the wall clock is an input of the environment); a      *)
(* printed message is kept as its kind.  usize arithmetic never overflows  *)
(* within the bounds (next_id <= MaxId + 1).                               *)
(***************************************************************************)
EXTENDS Integers, Sequences, FiniteSets, TLC

VARIABLES
    zadaniey,   \* ToDolist.zadaniey: the in-memory task sequence
    next_id,    \* ToDolist.next_id
    file,       \* content of zadaniey.json
    pc,         \* "loop" | "exited" | "aborted_stdin" | "aborted_save"
    out,        \* the last message a command (or start-up) printed
    issued,     \* history: ids printed by add/add_with_date in this run
    runIds,     \* history: ids loaded at start-up or assigned in this run
    usedIds     \* history: ids any task ever had, over all runs

vars == <<zadaniey, next_id, file, pc, out, issued, runIds, usedIds>>

(* Bounds of the exploration: the cap on next_id before an add is tried,   *)
(* in a single run (SpecRun) and with restarts and I/O failures (Spec).    *)
MaxId == 3
MaxIdP == 2

(* Inputs of the environment. *)
PlainTexts == {"buy milk"}
DatedTexts == {"write report"}
Times == {"T1", "T2"}
DateStrs == {<<2025, 1, 15>>, <<2024, 2, 30>>, <<2025, 2, 29>>, <<2025, 13, 1>>, <<2025, 4, 0>>}
SaveIo == {"ok", "open_err", "write_err"}
LoadIo == {"ok", "read_err"}

None == <<>>
Some(v) == <<v>>

(* ---------------------------------------------------------------------- *)
(* chrono: NaiveDate::parse_from_str(s, "%Y-%m-%d") on a well-formed       *)
(* y-m-d string succeeds iff the triple is a date of the calendar.         *)
IsLeap(y) == (y % 4 = 0 /\ y % 100 # 0) \/ y % 400 = 0

DaysInMonth(y, m) ==
    IF m = 2 THEN (IF IsLeap(y) THEN 29 ELSE 28)
    ELSE IF m \in {4, 6, 9, 11} THEN 30 ELSE 31

\* mutant: the fields are range-checked, the month's length is not
parse_from_str_lax(d) ==
    /\ d[2] \in 1..12
    /\ d[3] \in 1..31

parse_from_str(d) ==
    /\ d[2] \in 1..12
    /\ d[3] >= 1
    /\ d[3] <= DaysInMonth(d[1], d[2])

(* ---------------------------------------------------------------------- *)
(* Zadanie                                                                 *)
Zadanie_new(id, text, t) ==
    [id |-> id, text |-> text, done |-> FALSE, created_at |-> t,
     completed_at |-> None, due_date |-> None]

Zadanie_with_due_date(id, text, due_date, t) ==
    [id |-> id, text |-> text, done |-> FALSE, created_at |-> t,
     completed_at |-> None, due_date |-> due_date]

\* mutant: the flag is set, the timestamp is not
Zadanie_complete_flag_only(z, t) ==
    [z EXCEPT !.done = TRUE]

Zadanie_complete(z, t) ==
    [z EXCEPT !.done = TRUE, !.completed_at = Some(t)]

(* ---------------------------------------------------------------------- *)
(* ToDolist: a store is [zadaniey, next_id]; an operation returns the new  *)
(* store and its Result.                                                   *)
Store(zs, n) == [zadaniey |-> zs, next_id |-> n]

ToDolist_new == Store(<<>>, 1)

\* mutant: the id is taken from the length of the list
add_len_id(td, text, t) ==
    Store(Append(td.zadaniey, Zadanie_new(Len(td.zadaniey) + 1, text, t)),
          td.next_id + 1)

add(td, text, t) ==
    Store(Append(td.zadaniey, Zadanie_new(td.next_id, text, t)), td.next_id + 1)

add_with_date(td, text, d, t) ==
    IF parse_from_str(d)
    THEN [store |-> Store(Append(td.zadaniey,
                                 Zadanie_with_due_date(td.next_id, text, Some(d), t)),
                          td.next_id + 1),
          res |-> "Ok"]
    ELSE [store |-> td, res |-> "InvalidDateFormat"]

\* iter().position(|t| t.id == id): the first index holding id, 0 for None
position(zs, id) ==
    IF \E i \in DOMAIN zs : zs[i].id = id
    THEN CHOOSE i \in DOMAIN zs :
            /\ zs[i].id = id
            /\ \A j \in DOMAIN zs : zs[j].id = id => i <= j
    ELSE 0

\* mutant: Vec::swap_remove(i), the last element takes the place of element i
Vec_swap_remove(zs, i) ==
    IF i = Len(zs) THEN SubSeq(zs, 1, Len(zs) - 1)
    ELSE [SubSeq(zs, 1, Len(zs) - 1) EXCEPT ![i] = zs[Len(zs)]]

\* Vec::remove(i): drops element i and shifts the rest left
Vec_remove(zs, i) ==
    SubSeq(zs, 1, i - 1) \o SubSeq(zs, i + 1, Len(zs))

complete(td, id, t) ==
    LET i == position(td.zadaniey, id) IN
    IF i # 0
    THEN [store |-> Store([td.zadaniey EXCEPT ![i] = Zadanie_complete(@, t)],
                          td.next_id),
          res |-> "Ok"]
    ELSE [store |-> td, res |-> "NotFound"]

\* mutant: next_id is recomputed from the tasks left
remove_recount(td, id) ==
    LET i == position(td.zadaniey, id)
        zs == Vec_remove(td.zadaniey, i)
    IN
    IF i # 0
    THEN [store |-> Store(zs, IF zs = <<>> THEN 1
                              ELSE 1 + CHOOSE m \in {zs[k].id : k \in DOMAIN zs} :
                                          \A k \in DOMAIN zs : zs[k].id <= m),
          res |-> "Ok"]
    ELSE [store |-> td, res |-> "NotFound"]

remove(td, id) ==
    LET i == position(td.zadaniey, id) IN
    IF i # 0
    THEN [store |-> Store(Vec_remove(td.zadaniey, i), td.next_id), res |-> "Ok"]
    ELSE [store |-> td, res |-> "NotFound"]

\* mutant: the open tasks are counted
done_count_open(zs) == Cardinality({i \in DOMAIN zs : ~zs[i].done})

\* the filter(|t| t.done).count() of list
done_count(zs) == Cardinality({i \in DOMAIN zs : zs[i].done})

\* (done as f32 / total as f32) * 100.0 printed with {:.1}: tenths of a
\* percent, rounded to nearest (no tie occurs for total <= 5)
progress(done, total) == (2000 * done + total) \div (2 * total)

Msg(m) == [msg |-> m, id |-> 0, entries |-> <<>>, progress |-> 0]

list(td) ==
    IF td.zadaniey = <<>>
    THEN Msg("empty")
    ELSE [msg |-> "list", id |-> 0,
          entries |-> [i \in DOMAIN td.zadaniey |->
                          [id |-> td.zadaniey[i].id,
                           done |-> td.zadaniey[i].done,
                           text |-> td.zadaniey[i].text,
                           due_date |-> td.zadaniey[i].due_date]],
          progress |-> progress(done_count(td.zadaniey), Len(td.zadaniey))]

(* ---------------------------------------------------------------------- *)
(* serde_json: a task is written as an object, a sequence of <<key, value>>*)
(* members with tagged values; an Option is null or its value.             *)
json_opt(o) == IF o = None THEN <<"null">> ELSE <<"str", o[1]>>

to_json(z) ==
    << <<"id", <<"num", z.id>> >>,
       <<"text", <<"str", z.text>> >>,
       <<"done", <<"bool", z.done>> >>,
       <<"created_at", <<"str", z.created_at>> >>,
       <<"completed_at", json_opt(z.completed_at)>>,
       <<"due_date", json_opt(z.due_date)>> >>

member(obj, key) == obj[CHOOSE i \in DOMAIN obj : obj[i][1] = key][2]

opt_from(v) == IF v[1] = "null" THEN None ELSE Some(v[2])

from_json(obj) ==
    [id |-> member(obj, "id")[2],
     text |-> member(obj, "text")[2],
     done |-> member(obj, "done")[2],
     created_at |-> member(obj, "created_at")[2],
     completed_at |-> opt_from(member(obj, "completed_at")),
     due_date |-> opt_from(member(obj, "due_date"))]

to_string(zs) == [i \in DOMAIN zs |-> to_json(zs[i])]
from_str(body) == [i \in DOMAIN body |-> from_json(body[i])]

(* The file zadaniey.json: absent, unparseable bytes found at start-up,    *)
(* the remains of a write that failed after truncation, or a JSON array.   *)
Missing == [kind |-> "missing", body |-> <<>>]
Garbage == [kind |-> "garbage", body |-> <<>>]
Partial == [kind |-> "partial", body |-> <<>>]
Json(body) == [kind |-> "json", body |-> body]

\* io: the outcome the file system gives this call
save_to_file(zs, f, io) ==
    IF io = "open_err" THEN [file |-> f, res |-> "IOError"]
    ELSE IF io = "write_err" THEN [file |-> Partial, res |-> "IOError"]
    ELSE [file |-> Json(to_string(zs)), res |-> "Ok"]

load_from_file(f, io) ==
    IF f.kind = "missing" THEN [zadaniey |-> <<>>, res |-> "Ok"]
    ELSE IF io = "read_err" THEN [zadaniey |-> <<>>, res |-> "IOError"]
    ELSE IF f.kind = "json" THEN [zadaniey |-> from_str(f.body), res |-> "Ok"]
    ELSE [zadaniey |-> <<>>, res |-> "ParseError"]

IdsOf(zs) == {zs[i].id : i \in DOMAIN zs}

MaxOf(S) == IF S = {} THEN 0 ELSE CHOOSE m \in S : \A x \in S : x <= m

\* mutant: next_id is the number of loaded tasks plus one
main_load_count(f, io) ==
    LET r == load_from_file(f, io) IN
    IF r.res = "Ok"
    THEN [store |-> Store(r.zadaniey, Len(r.zadaniey) + 1), out |-> Msg("banner")]
    ELSE [store |-> ToDolist_new, out |-> Msg("load_warning")]

\* main, lines 168-178: the store the process starts with
main_load(f, io) ==
    LET r == load_from_file(f, io) IN
    IF r.res = "Ok"
    THEN [store |-> Store(r.zadaniey, MaxOf(IdsOf(r.zadaniey)) + 1), out |-> Msg("banner")]
    ELSE [store |-> ToDolist_new, out |-> Msg("load_warning")]

(* ---------------------------------------------------------------------- *)
(* The command loop of main (lines 185-269).  One action per command; each *)
(* is the whole match arm, the save that follows a mutation included.      *)
Current == Store(zadaniey, next_id)

Ids(cap) == 1..cap

\* save_to_file(&todo.zadaniey).unwrap(): an Err panics and ends the process
SaveUnwrap(td, m, io) ==
    LET s == save_to_file(td.zadaniey, file, io) IN
    /\ zadaniey' = td.zadaniey
    /\ next_id' = td.next_id
    /\ file' = s.file
    /\ pc' = IF s.res = "Ok" THEN "loop" ELSE "aborted_save"
    /\ out' = IF s.res = "Ok" THEN m ELSE Msg("panic")

\* an arm that reports and goes on to the next iteration without saving
Report(td, m) ==
    /\ zadaniey' = td.zadaniey
    /\ next_id' = td.next_id
    /\ out' = m
    /\ UNCHANGED <<file, pc>>

Created(td) ==
    LET id == td.zadaniey[Len(td.zadaniey)].id IN
    /\ issued' = Append(issued, id)
    /\ runIds' = runIds \cup {id}
    /\ usedIds' = usedIds \cup {id}

Added(td) == [Msg("added") EXCEPT !.id = td.next_id - 1]

\* "добавить <текст>"
AddCmd(text, t, io, cap) ==
    /\ pc = "loop"
    /\ next_id <= cap
    /\ LET td == add(Current, text, t) IN
         /\ SaveUnwrap(td, Added(td), io)
         /\ Created(td)

\* "добавить <текст> до <дата>"
AddDateCmd(text, d, t, io, cap) ==
    /\ pc = "loop"
    /\ next_id <= cap
    /\ LET r == add_with_date(Current, text, d, t) IN
         IF r.res = "Ok"
         THEN SaveUnwrap(r.store, Added(r.store), io) /\ Created(r.store)
         ELSE Report(r.store, Msg(r.res)) /\ UNCHANGED <<issued, runIds, usedIds>>

\* "список"
ListCmd ==
    /\ pc = "loop"
    /\ Report(Current, list(Current))
    /\ UNCHANGED <<issued, runIds, usedIds>>

\* mutant: the arm does not save
CompleteCmd_unsaved(id, t, io) ==
    /\ pc = "loop"
    /\ LET r == complete(Current, id, t) IN
         IF r.res = "Ok"
         THEN Report(r.store, Msg("completed"))
         ELSE Report(r.store, Msg(r.res))
    /\ UNCHANGED <<issued, runIds, usedIds>>

\* "выполнить <ID>"
CompleteCmd(id, t, io) ==
    /\ pc = "loop"
    /\ LET r == complete(Current, id, t) IN
         IF r.res = "Ok"
         THEN SaveUnwrap(r.store, Msg("completed"), io)
         ELSE Report(r.store, Msg(r.res))
    /\ UNCHANGED <<issued, runIds, usedIds>>

\* "удалить <ID>"
RemoveCmd(id, io) ==
    /\ pc = "loop"
    /\ LET r == remove(Current, id) IN
         IF r.res = "Ok"
         THEN SaveUnwrap(r.store, Msg("removed"), io)
         ELSE Report(r.store, Msg(r.res))
    /\ UNCHANGED <<issued, runIds, usedIds>>

\* an ID that is no number, "добавить" without a text, an unknown command
UsageCmd ==
    /\ pc = "loop"
    /\ Report(Current, Msg("usage"))
    /\ UNCHANGED <<issued, runIds, usedIds>>

\* an empty line: continue
BlankCmd ==
    /\ pc = "loop"
    /\ UNCHANGED vars

\* "выход": break
QuitCmd ==
    /\ pc = "loop"
    /\ pc' = "exited"
    /\ UNCHANGED <<zadaniey, next_id, file, out, issued, runIds, usedIds>>

\* read_line(..).unwrap() or flush().unwrap() on a failed console
StdinFail ==
    /\ pc = "loop"
    /\ pc' = "aborted_stdin"
    /\ out' = Msg("panic")
    /\ UNCHANGED <<zadaniey, next_id, file, issued, runIds, usedIds>>

\* the program is started again: main, lines 168-178
Restart(io) ==
    /\ pc # "loop"
    /\ LET m == main_load(file, io) IN
         /\ zadaniey' = m.store.zadaniey
         /\ next_id' = m.store.next_id
         /\ out' = m.out
         /\ runIds' = IdsOf(m.store.zadaniey)
         /\ usedIds' = usedIds \cup IdsOf(m.store.zadaniey)
    /\ pc' = "loop"
    /\ issued' = <<>>
    /\ UNCHANGED file

\* the state main reaches the loop in when first started on file f
Started(f) ==
    LET m == main_load(f, "ok") IN
    /\ file = f
    /\ zadaniey = m.store.zadaniey
    /\ next_id = m.store.next_id
    /\ out = m.out
    /\ pc = "loop"
    /\ issued = <<>>
    /\ runIds = IdsOf(m.store.zadaniey)
    /\ usedIds = IdsOf(m.store.zadaniey)

Init == Started(Missing) \/ Started(Garbage)

Next ==
    \/ \E text \in PlainTexts, t \in Times, io \in SaveIo : AddCmd(text, t, io, MaxIdP)
    \/ \E text \in DatedTexts, d \in DateStrs, t \in Times, io \in SaveIo :
            AddDateCmd(text, d, t, io, MaxIdP)
    \/ ListCmd
    \/ \E id \in Ids(MaxIdP), t \in Times, io \in SaveIo : CompleteCmd(id, t, io)
    \/ \E id \in Ids(MaxIdP), io \in SaveIo : RemoveCmd(id, io)
    \/ UsageCmd
    \/ BlankCmd
    \/ QuitCmd
    \/ StdinFail
    \/ \E io \in LoadIo : Restart(io)

Spec == Init /\ [][Next]_vars

(* A single run of the store from the first start, with a file system that *)
(* never fails.                                                            *)
InitRun == Started(Missing)

NextRun ==
    \/ \E text \in PlainTexts, t \in Times : AddCmd(text, t, "ok", MaxId)
    \/ \E text \in DatedTexts, d \in DateStrs, t \in Times :
            AddDateCmd(text, d, t, "ok", MaxId)
    \/ ListCmd
    \/ \E id \in Ids(MaxId), t \in Times : CompleteCmd(id, t, "ok")
    \/ \E id \in Ids(MaxId) : RemoveCmd(id, "ok")
    \/ UsageCmd
    \/ BlankCmd

SpecRun == InitRun /\ [][NextRun]_vars

(* ====================================================================== *)
(* Properties                                                              *)
(* ====================================================================== *)

NewId == issued'[Len(issued')]
TaskCreated == Len(issued') = Len(issued) + 1

(* C1: in a run started on an empty store, the k-th successful add or      *)
(* add_with_date creates the task with id k and prints k, and next_id is   *)
(* one more than the number of adds so far, whatever was removed.          *)
C1_IdsSequential ==
    /\ \A k \in DOMAIN issued : issued[k] = k
    /\ next_id = Len(issued) + 1
    /\ out.msg = "added" => out.id = Len(issued)

\* the third add, made after the then-highest id 2 was removed, got id 3
C1_Witness ==
    /\ out.msg = "added"
    /\ issued = <<1, 2, 3>>
    /\ IdsOf(zadaniey) = {1, 3}

(* C2 as claimed: over runs and restarts no new task gets an id a task     *)
(* ever had, and next_id never becomes smaller.                            *)
C2_NeverReusedAcrossRestart ==
    [][/\ TaskCreated => NewId \notin usedIds
       /\ next_id' >= next_id]_vars

(* C2 amended: within one run no new task gets an id that a task loaded at *)
(* start-up or created earlier in the run had, and next_id never becomes   *)
(* smaller.                                                                *)
C2_NeverReusedWithinRun ==
    [][pc = "loop" =>
        /\ TaskCreated => NewId \notin runIds
        /\ next_id' >= next_id]_vars

\* a run that loaded tasks, removed one and then added one
C2_Witness ==
    /\ pc = "loop"
    /\ out.msg = "added"
    /\ Len(issued) < Cardinality(runIds)
    /\ \E i \in runIds : i \notin IdsOf(zadaniey)

(* C3: remove(id) of a present id deletes that one task, keeps the others  *)
(* (all fields) in their order and keeps next_id; of an absent id it       *)
(* returns NotFound and changes neither the tasks nor next_id.             *)
C3_RemoveFrame ==
    [][\A id \in Ids(MaxId) : RemoveCmd(id, "ok") =>
        IF id \in IdsOf(zadaniey)
        THEN /\ out'.msg = "removed"
             /\ next_id' = next_id
             /\ Len(zadaniey') = Len(zadaniey) - 1
             /\ \E i \in DOMAIN zadaniey :
                    /\ zadaniey[i].id = id
                    /\ \A j \in DOMAIN zadaniey' :
                          zadaniey'[j] = zadaniey[IF j < i THEN j ELSE j + 1]
        ELSE /\ out'.msg = "NotFound"
             /\ zadaniey' = zadaniey
             /\ next_id' = next_id
             /\ file' = file]_vars

\* the middle one of three tasks was removed
C3_Witness ==
    /\ out.msg = "removed"
    /\ Len(zadaniey) = 2
    /\ zadaniey[1].id = 1
    /\ zadaniey[2].id = 3

\* the date strings of DateStrs that are dates of the calendar
CalendarDates == {<<2025, 1, 15>>}

C5_Iff ==
    \A i \in DOMAIN zadaniey :
        zadaniey[i].done <=> zadaniey[i].completed_at # None

(* C5: after every step each task has completed_at iff it is done, and a   *)
(* complete(id) leaves every task with another id as it was.               *)
C5_CompletedIffDone ==
    [][/\ C5_Iff'
       /\ \A id \in Ids(MaxIdP), t \in Times, io \in SaveIo :
             CompleteCmd(id, t, io) =>
                 /\ Len(zadaniey') = Len(zadaniey)
                 /\ \A i \in DOMAIN zadaniey :
                       zadaniey[i].id # id => zadaniey'[i] = zadaniey[i]]_vars

\* one task completed, the other not
C5_Witness ==
    /\ out.msg = "completed"
    /\ Len(zadaniey) = 2
    /\ zadaniey[1].done /\ zadaniey[1].completed_at # None
    /\ ~zadaniey[2].done /\ zadaniey[2].completed_at = None

(* C6 as claimed: a done task stays done and its completed_at never        *)
(* changes again.                                                          *)
C6_DoneIsFinal ==
    [][\A i \in DOMAIN zadaniey, j \in DOMAIN zadaniey' :
        zadaniey[i].id = zadaniey'[j].id /\ zadaniey[i].done =>
            /\ zadaniey'[j].done
            /\ zadaniey'[j].completed_at = zadaniey[i].completed_at]_vars

Loaded(f) == load_from_file(f, "ok")

(* C7 as claimed: whenever the loop is about to read a command, the file   *)
(* holds exactly the in-memory tasks.                                      *)
C7_FileHoldsStore ==
    pc = "loop" => Loaded(file) = [zadaniey |-> zadaniey, res |-> "Ok"]

\* the store a failed start-up load leaves, before any command changed it
AfterFailedLoad ==
    /\ zadaniey = <<>>
    /\ next_id = 1
    /\ file.kind # "missing"

NoMutation == {"list", "empty", "InvalidDateFormat", "NotFound", "usage"}

(* C7 amended: whenever the loop is about to read a command, the file      *)
(* holds exactly the in-memory tasks, unless the start-up load failed and  *)
(* no command has changed the store since (the store is empty and the file *)
(* is as it was found); and a command that does not change the store, quit *)
(* included, does not write the file.                                      *)
C7_PersistedAfterMutation ==
    [][/\ pc' = "loop" => C7_FileHoldsStore' \/ AfterFailedLoad'
       /\ pc = "loop" /\ (out'.msg \in NoMutation \/ pc' = "exited") =>
             file' = file]_vars

\* a completion has been saved
C7_Witness ==
    /\ pc = "loop"
    /\ out.msg = "completed"
    /\ Len(zadaniey) = 2
    /\ file = Json(to_string(zadaniey))

(* C8 as claimed: the process ends only on quit or on a failed read of the *)
(* console.                                                                *)
C8_ErrorsNotFatal == pc \in {"loop", "exited", "aborted_stdin"}

(* C9: at start-up a missing file gives the empty store with next_id 1 and *)
(* no error; a file that does not parse gives the empty store with next_id *)
(* 1, the process goes on and the file stays as it is until a save, which  *)
(* writes the new in-memory tasks only; a file that parses gives the saved *)
(* tasks in their order (after a quit: the store the last run held, unless *)
(* that run never got past a failed load) with next_id one more than the   *)
(* highest id.                                                             *)
C9_StartupLoad ==
    [][/\ pc # "loop" /\ pc' = "loop" =>
            /\ file' = file
            /\ file.kind = "missing" =>
                  zadaniey' = <<>> /\ next_id' = 1 /\ out'.msg = "banner"
            /\ file.kind \in {"garbage", "partial"} =>
                  zadaniey' = <<>> /\ next_id' = 1 /\ out'.msg = "load_warning"
            /\ file.kind = "json" /\ out'.msg = "banner" =>
                  /\ to_string(zadaniey') = file.body
                  /\ pc = "exited" /\ ~AfterFailedLoad => zadaniey' = zadaniey
                  /\ \A i \in DOMAIN zadaniey' : zadaniey'[i].id < next_id'
                  /\ zadaniey' = <<>> => next_id' = 1
                  /\ zadaniey' # <<>> =>
                        \E i \in DOMAIN zadaniey' : zadaniey'[i].id = next_id' - 1
       /\ pc = "loop" /\ file.kind \in {"garbage", "partial"} /\ file' # file =>
            \/ pc' = "loop" /\ file' = Json(to_string(zadaniey'))
            \/ pc' = "aborted_save" /\ file' = Partial]_vars

\* a start-up that loaded the one task left, whose id is 2
C9_Witness ==
    /\ pc = "loop"
    /\ out.msg = "banner"
    /\ issued = <<>>
    /\ Len(zadaniey) = 1
    /\ zadaniey[1].id = 2
    /\ next_id = 3

(* C10: list shows the tasks of the store in their order with progress =   *)
(* done / total * 100 over the tasks present, and reports the empty store  *)
(* as such; with tasks 1 and 2 open it shows 0%, with 1 done 50%, with     *)
(* only task 1 left and done 100%.                                         *)
C10_List ==
    /\ out.msg = "empty" => zadaniey = <<>>
    /\ out.msg = "list" =>
        LET total == Len(zadaniey)
            done == Cardinality({i \in DOMAIN zadaniey : zadaniey[i].done})
            d == out.progress * total - 1000 * done
        IN  /\ total > 0
            /\ Len(out.entries) = total
            /\ \A i \in DOMAIN zadaniey :
                  /\ out.entries[i].id = zadaniey[i].id
                  /\ out.entries[i].done = zadaniey[i].done
                  /\ out.entries[i].text = zadaniey[i].text
                  /\ out.entries[i].due_date = zadaniey[i].due_date
            /\ 2 * d <= total /\ -2 * d <= total
            /\ (total = 2 /\ done = 0) => out.progress = 0
            /\ (total = 2 /\ done = 1) => out.progress = 500
            /\ (total = 1 /\ done = 1) => out.progress = 1000

\* the end of the scenario: ids 1 and 2 were assigned, 2 removed, 1 done
C10_Witness ==
    /\ out.msg = "list"
    /\ out.progress = 1000
    /\ issued = <<1, 2>>
    /\ Len(out.entries) = 1
    /\ out.entries[1].id = 1
    /\ out.entries[1].text = "buy milk"
    /\ out.entries[1].done

====
